---- MODULE Spec2Model ----
(***************************************************************************)
(* Ingestion of chat events into a property graph.                         *)
(*                                                                         *)
(*   SpecBatch   write_batch of Benchmark/ingest_whatsapp_3.py, called     *)
(*               with arbitrary rows                                       *)
(*   SpecWriter  GraphWriter.ingest / write_event of                       *)
(*               Streaming-data-for-graphiti/graph_writer.py               *)
(*   SpecIngest  either of the two, whichever script is run                *)
(*   SpecMain    main() of Benchmark/ingest_whatsapp_3.py: read, render,   *)
(*               embed, write in batches                                   *)
(*   SpecEmbed   embed_texts of Streaming-data-for-graphiti/embedding.py   *)
(*               and whatsapp-ingested-graphiti/ingestion.py               *)
(*   SpecService the query service of Benchmark/query_api.py: startup,     *)
(*               the /query handler, shutdown                              *)
(*   SpecFusion  the reciprocal-rank fusion behind graphiti.search_ of     *)
(*               Benchmark/query_api.py                                    *)
(*   SpecPipelines  main() above or Streaming-data-for-graphiti/ingest.py, *)
(*               whichever pipeline is run                                 *)
(*   SpecPrompt  build_prompt of Streaming-data-for-graphiti/query_api.py  *)
(*   SpecAugment main() of                                                 *)
(*               scripts/augment_airbyte_whatsapp_for_graphiti.py          *)
(*   SpecElements  build_graph_elements of the same script, called with    *)
(*               any events list                                           *)
(*   SpecUpsert  scripts/programmatic_ingestion.py                         *)
(*   SpecBench   Benchmark/run_benchmark_1.py and run_benchmark.py         *)
(*                                                                         *)
(* The graph store is a multigraph: nodes and relationships have an        *)
(* identity of their own (their position in the store), so that MERGE      *)
(* (match, or create when nothing matches) differs from CREATE.            *)
(***************************************************************************)
EXTENDS Integers, Sequences, FiniteSets, TLC

VARIABLES
    script,     \* which ingestion script of the repository is running
    graph,      \* ingest_whatsapp_3: the committed graph store
    last,       \* ingest_whatsapp_3: the batch of the latest write_batch call
    nWrites,    \* ingest_whatsapp_3: write_batch calls so far
    wStore,     \* GraphWriter: the committed graph store
    wTx,        \* GraphWriter: the graph as the open transaction sees it
    wEvent,     \* GraphWriter: the event of the current loop iteration
    wpc,        \* GraphWriter: where ingest / write_event stands
    wLeft,      \* GraphWriter: events of the input list not yet reached
    wApplied,   \* GraphWriter: the events committed so far
    mpc,        \* main: where main() stands
    mDriver,    \* main: the Neo4j driver ("none", "open", "closed")
    mGroup,     \* main: group_id of the entry being read
    mFresh,     \* main: the change being read has had no message yet
    mContacts,  \* main: contacts of the change being read
    mSeen,      \* main: latest profile name observed per (group, sender)
    nMsgs,      \* main: messages read so far
    mRecords,   \* main: records
    mIdx,       \* main: i of the batch loop
    mError,     \* main: the exception that ended main(), if any
    mMsg,       \* main: msg of the latest iteration of the message loop
    mSkipped,   \* main: ids of the messages left out for an empty body
    eTexts,     \* embed_texts: texts
    eBatchSize, \* embed_texts: batch_size
    eIdx,       \* embed_texts: i of the loop
    eOut,       \* embed_texts: embeddings
    epc,        \* embed_texts: where the call stands
    spc,        \* query_api: the service ("starting", "serving", "stopped")
    sGraphiti,  \* query_api: the global graphiti ("None", "open", "closed")
    rpc,        \* query_graph: where the handler stands
    rQuery,     \* query_graph: req.query
    rResponse,  \* query_graph: response of generate_response, once it is there
    rOut,       \* query_graph: what the latest call returned or raised
    nQueries,   \* query_graph: calls so far
    nCalls,     \* query_graph: search and language-model calls issued so far
    fConst,     \* rank fusion: the constant
    fChannels,  \* rank fusion: the ranking of each channel
    fScores,    \* rank fusion: the fused scores, once computed
    fpc,        \* rank fusion: where the search stands
    pRows,      \* build_prompt: context, the retrieved rows in rank order
    pText,      \* build_prompt: the lines of context_text, in order
    ppc,        \* build_prompt: where the call stands
    aEvents,    \* augment: all_events, or the events handed to the builder
    aCounter,   \* augment: message_counter
    aNodes,     \* augment: the returned nodes list
    aRels,      \* augment: the returned relationships list
    apc,        \* augment: where the script stands
    uStore,     \* programmatic_ingestion: the committed graph store
    uContacts,  \* programmatic_ingestion: v["contacts"] of the change
    uMessages,  \* programmatic_ingestion: v["messages"] of the change
    uC,         \* programmatic_ingestion: contacts the outer loop is through
    uM,         \* programmatic_ingestion: messages the inner loop is through
    upc,        \* programmatic_ingestion: where the script stands
    bDataset,   \* benchmark: the rows of qa_dataset.csv
    bIdx,       \* benchmark: rows the loop is through
    bResults,   \* benchmark: results
    bFailed,    \* benchmark: rows the API answered with its error body
    bFile,      \* benchmark: the rows of the results file
    bpc         \* benchmark: where the script stands

batchVars == <<graph, last, nWrites>>
writerVars == <<wStore, wTx, wEvent, wpc, wLeft, wApplied>>
mainVars == <<mpc, mDriver, mGroup, mFresh, mContacts, mSeen, nMsgs, mRecords,
              mIdx, mError, mMsg, mSkipped>>
embedVars == <<eTexts, eBatchSize, eIdx, eOut, epc>>
serviceVars == <<spc, sGraphiti, rpc, rQuery, rResponse, rOut, nQueries, nCalls>>
fusionVars == <<fConst, fChannels, fScores, fpc>>
\* The variables of the other entry points of the repository.
promptVars == <<pRows, pText, ppc>>
augmentVars == <<aEvents, aCounter, aNodes, aRels, apc>>
upsertVars == <<uStore, uContacts, uMessages, uC, uM, upc>>
benchVars == <<bDataset, bIdx, bResults, bFailed, bFile, bpc>>
restVars == <<embedVars, serviceVars, fusionVars, promptVars, augmentVars, upsertVars, benchVars>>
vars == <<script, batchVars, writerVars, mainVars, restVars>>

NULL == "NULL"

(***************************************************************************)
(* The property graph and the Cypher clauses the scripts use.              *)
(***************************************************************************)
EmptyGraph == [nodes |-> <<>>, edges |-> <<>>]

\* The properties a script may set to null (an Optional name, a missing
\* embedding); bodies and timestamps are always values of the input.
NullableKeys == {"name", "embedding"}

\* A property map without the keys set to null (SET n.p = null removes p).
DropNulls(props) ==
    [k \in {x \in DOMAIN props : x \notin NullableKeys \/ props[x] # NULL}
        |-> props[k]]

\* MATCH (n:label {pat}): the nodes with the label whose properties agree with pat.
Match(g, label, pat) ==
    {i \in 1..Len(g.nodes) :
        /\ g.nodes[i].label = label
        /\ \A k \in DOMAIN pat :
              k \in DOMAIN g.nodes[i].props /\ g.nodes[i].props[k] = pat[k]}

\* CREATE (n:label {pat})
CreateNode(g, label, pat) ==
    [g EXCEPT !.nodes = Append(@, [label |-> label, props |-> pat])]

\* MERGE (n:label {pat}): create the node only when no node matches.
MergeNode(g, label, pat) ==
    IF Match(g, label, pat) = {} THEN CreateNode(g, label, pat) ELSE g

\* SET n.k = new[k] for every bound node n and every key k of new.
SetProps(g, ns, new) ==
    [g EXCEPT !.nodes =
        [i \in 1..Len(@) |->
            IF i \in ns
            THEN [@[i] EXCEPT !.props = DropNulls(new @@ @)]
            ELSE @[i]]]

\* MATCH (a)-[:type]->(b)
HasEdge(g, type, a, b) ==
    \E j \in 1..Len(g.edges) :
        g.edges[j] = [type |-> type, from |-> a, to |-> b]

\* CREATE (a)-[:type]->(b)
CreateEdge(g, type, a, b) ==
    [g EXCEPT !.edges = Append(@, [type |-> type, from |-> a, to |-> b])]

\* MERGE (a)-[:type]->(b) for one bound pair.
MergeEdge(g, type, a, b) ==
    IF HasEdge(g, type, a, b) THEN g ELSE CreateEdge(g, type, a, b)

\* MERGE (a)-[:type]->(b) for every row of bindings (a, b) in pairs.
RECURSIVE MergeEdges(_, _, _)
MergeEdges(g, type, pairs) ==
    IF pairs = {} THEN g
    ELSE LET p == CHOOSE q \in pairs : TRUE
         IN  MergeEdges(MergeEdge(g, type, p[1], p[2]), type, pairs \ {p})

(***************************************************************************)
(* Benchmark/ingest_whatsapp_3.py: write_batch                             *)
(***************************************************************************)
GroupIds == {"g1", "g2"}
UserIds == {"u1", "u2"}
UserNames == {"Ann", "Unknown"}
MessageIds == {"m1", "m2"}
\* The body, timestamp and embedding of one delivery of a message: a second
\* delivery of the same id may differ in them.
Contents ==
    { [body |-> "hi", timestamp |-> 1, embedding |-> "vec_hi"],
      [body |-> "bye", timestamp |-> 2, embedding |-> "vec_bye"] }

\* The rows main() builds (lines 148-165): every row carries an embedding.
Rows ==
    { [group_id |-> gid, user_id |-> uid, user_name |-> un,
       message_id |-> mid, parent_id |-> pid, timestamp |-> c.timestamp,
       body |-> c.body, embedding |-> c.embedding] :
        gid \in GroupIds, uid \in UserIds, un \in UserNames,
        mid \in MessageIds, pid \in MessageIds \cup {NULL}, c \in Contents }

\* Mutant: the parent node is initialised as a placeholder on every reference,
\* not only when it is created.
ReplyClause_ResetParent(g, row, ms) ==
    IF row.parent_id = NULL THEN g
    ELSE LET g1 == MergeNode(g, "Message", [id |-> row.parent_id])
             ps == Match(g1, "Message", [id |-> row.parent_id])
         IN  MergeEdges(SetProps(g1, ps \ ms, [embedding |-> NULL]),
                        "REPLIED_TO", ps \X ms)

\* FOREACH (_ IN CASE WHEN row.parent_id IS NULL THEN [] ELSE [1] END |
\*     MERGE (p:Message {id: row.parent_id})  MERGE (p)-[:REPLIED_TO]->(m))
ReplyClause(g, row, ms) ==
    IF row.parent_id = NULL THEN g
    ELSE LET g1 == MergeNode(g, "Message", [id |-> row.parent_id])
             ps == Match(g1, "Message", [id |-> row.parent_id])
         IN  MergeEdges(g1, "REPLIED_TO", ps \X ms)

\* Mutant: CREATE where the statement has MERGE.
MergeMessage_Create(g, mid) == CreateNode(g, "Message", [id |-> mid])

\* MERGE (m:Message {id: row.message_id})
MergeMessage(g, mid) == MergeNode(g, "Message", [id |-> mid])

\* SET m.body = row.body, m.timestamp = row.timestamp, m.embedding = row.embedding
SetMessage(g, ms, row) ==
    SetProps(g, ms, [body |-> row.body, timestamp |-> row.timestamp,
                     embedding |-> row.embedding])

\* The statement of write_batch for one row of UNWIND $batch AS row.
ApplyRow(g, row) ==
    LET g1 == MergeNode(g, "Group", [id |-> row.group_id])
        gs == Match(g1, "Group", [id |-> row.group_id])
        g2 == MergeNode(g1, "User", [id |-> row.user_id])
        us == Match(g2, "User", [id |-> row.user_id])
        g3 == SetProps(g2, us, [name |-> row.user_name])
        g4 == MergeMessage(g3, row.message_id)
        ms == Match(g4, "Message", [id |-> row.message_id])
        g5 == SetMessage(g4, ms, row)
        g6 == MergeEdges(g5, "SENT", us \X ms)
        g7 == MergeEdges(g6, "IN_GROUP", ms \X gs)
    IN  ReplyClause(g7, row, ms)

\* write_batch(tx, batch): the statement over every row of the batch, in order.
RECURSIVE ApplyBatch(_, _)
ApplyBatch(g, batch) ==
    IF batch = <<>> THEN g
    ELSE ApplyBatch(ApplyRow(g, Head(batch)), Tail(batch))

MaxWrites == 2

\* The writer's variables while ingest_whatsapp_3 runs.
WriterIdle ==
    /\ wStore = EmptyGraph
    /\ wTx = EmptyGraph
    /\ wEvent = NULL
    /\ wpc = "idle"
    /\ wLeft = 0
    /\ wApplied = {}

\* main()'s variables before main() is called.
MainIdle ==
    /\ mpc = "idle"
    /\ mDriver = "none"
    /\ mGroup = NULL
    /\ mFresh = FALSE
    /\ mContacts = {}
    /\ mSeen = {}
    /\ nMsgs = 0
    /\ mRecords = <<>>
    /\ mIdx = 0
    /\ mError = NULL
    /\ mMsg = <<>>
    /\ mSkipped = {}

\* embed_texts' variables while it is not called on its own.
EmbedIdle ==
    /\ eTexts = <<>>
    /\ eBatchSize = 0
    /\ eIdx = 0
    /\ eOut = <<>>
    /\ epc = "idle"

\* The query service's variables while the service is not run.
ServiceIdle ==
    /\ spc = "idle"
    /\ sGraphiti = "None"
    /\ rpc = "idle"
    /\ rQuery = NULL
    /\ rResponse = <<>>
    /\ rOut = <<>>
    /\ nQueries = 0
    /\ nCalls = 0

\* The rank fusion's variables while no search runs.
FusionIdle ==
    /\ fConst = 0
    /\ fChannels = <<>>
    /\ fScores = <<>>
    /\ fpc = "idle"

\* build_prompt's variables while it is not called.
PromptIdle ==
    /\ pRows = <<>>
    /\ pText = <<>>
    /\ ppc = "idle"

\* The augmentation script is not run.
AugmentIdle ==
    /\ aEvents = <<>>
    /\ aCounter = 0
    /\ aNodes = <<>>
    /\ aRels = <<>>
    /\ apc = "idle"

\* programmatic_ingestion.py is not run.
UpsertIdle ==
    /\ uStore = EmptyGraph
    /\ uContacts = <<>>
    /\ uMessages = <<>>
    /\ uC = 0
    /\ uM = 0
    /\ upc = "idle"

\* The benchmark runner is not run.
BenchIdle ==
    /\ bDataset = <<>>
    /\ bIdx = 0
    /\ bResults = <<>>
    /\ bFailed = {}
    /\ bFile = <<>>
    /\ bpc = "idle"

\* The other entry points are not run.
RestIdle == EmbedIdle /\ ServiceIdle /\ FusionIdle /\ PromptIdle /\ AugmentIdle /\ UpsertIdle /\ BenchIdle

\* ingest_whatsapp_3's store while another script runs.
BatchIdle ==
    /\ graph = EmptyGraph
    /\ last = <<>>
    /\ nWrites = 0

InitBatch ==
    /\ script = "write_batch"
    /\ BatchIdle
    /\ WriterIdle
    /\ MainIdle
    /\ RestIdle

\* session.execute_write(write_batch, batch) with a batch of one row.
WriteBatch(row) ==
    /\ script = "write_batch"
    /\ nWrites < MaxWrites
    /\ graph' = ApplyBatch(graph, <<row>>)
    /\ last' = <<row>>
    /\ nWrites' = nWrites + 1
    /\ UNCHANGED <<script, restVars, writerVars, mainVars>>

NextBatch == \E row \in Rows : WriteBatch(row)

SpecBatch == InitBatch /\ [][NextBatch]_vars

(***************************************************************************)
(* Streaming-data-for-graphiti/graph_writer.py: GraphWriter                *)
(***************************************************************************)
StreamIds == {"s1"}
\* What one delivery of an event carries besides its ids; actor_name is
\* Optional (contacts.get(msg["from"]) is None for an unknown sender).
Deliveries ==
    { [source |-> "whatsapp", actor_id |-> "a1", actor_name |-> "Ann",
       content |-> "hi", timestamp |-> 1, embedding |-> "vec_hi"],
      [source |-> "whatsapp", actor_id |-> "a1", actor_name |-> "Ann",
       content |-> "bye", timestamp |-> 2, embedding |-> "vec_bye"],
      [source |-> "slack", actor_id |-> "a2", actor_name |-> NULL,
       content |-> "bye", timestamp |-> 2, embedding |-> "vec_bye"] }

\* StreamEvent, with the embedding ingest.py attaches (lines 18-21).
Events ==
    { [source |-> d.source, stream_id |-> sid, event_id |-> eid,
       actor_id |-> d.actor_id, actor_name |-> d.actor_name,
       timestamp |-> d.timestamp, content |-> d.content,
       embedding |-> d.embedding, parent_event_id |-> pid] :
        sid \in StreamIds, eid \in MessageIds,
        pid \in MessageIds \cup {NULL}, d \in Deliveries }

\* MERGE (a:Actor {id: $actor_id}) SET a.name = $actor_name
StmtActor(g, e) ==
    LET g1 == MergeNode(g, "Actor", [id |-> e.actor_id])
    IN  SetProps(g1, Match(g1, "Actor", [id |-> e.actor_id]),
                 [name |-> e.actor_name])

\* MERGE (s:Stream {id: $stream_id, source: $source})
StmtStream(g, e) ==
    MergeNode(g, "Stream", [id |-> e.stream_id, source |-> e.source])

\* MERGE (m:Message {id: $event_id}) SET m.body = ..., m.source = $source
\* WITH m MATCH (a:Actor {id: $actor_id}) MERGE (a)-[:PRODUCED]->(m)
\* WITH m MATCH (s:Stream {id: $stream_id}) MERGE (s)-[:HAS_EVENT]->(m)
StmtMessage(g, e) ==
    LET g1 == MergeNode(g, "Message", [id |-> e.event_id])
        ms == Match(g1, "Message", [id |-> e.event_id])
        g2 == SetProps(g1, ms, [body |-> e.content, timestamp |-> e.timestamp,
                                embedding |-> e.embedding, source |-> e.source])
        as == Match(g2, "Actor", [id |-> e.actor_id])
        g3 == MergeEdges(g2, "PRODUCED", as \X ms)
        \* no row survives an empty MATCH: the rest of the statement is skipped
        ss == IF as = {} THEN {} ELSE Match(g3, "Stream", [id |-> e.stream_id])
    IN  MergeEdges(g3, "HAS_EVENT", ss \X ms)

\* if e.parent_event_id:
\*     MATCH (c:Message {id: $child}) MATCH (p:Message {id: $parent})
\*     MERGE (c)-[:REPLIES_TO]->(p)
StmtReply(g, e) ==
    IF e.parent_event_id = NULL THEN g
    ELSE MergeEdges(g, "REPLIES_TO",
                    Match(g, "Message", [id |-> e.event_id])
                        \X Match(g, "Message", [id |-> e.parent_event_id]))

\* write_event(tx, e): its four statements in order.
WriteEvent(g, e) == StmtReply(StmtMessage(StmtStream(StmtActor(g, e), e), e), e)

MaxEvents == 3

InitWriter ==
    /\ script = "streaming_ingest"
    /\ BatchIdle
    /\ MainIdle
    /\ RestIdle
    /\ wStore = EmptyGraph
    /\ wTx = EmptyGraph
    /\ wEvent = NULL
    /\ wpc = "idle"
    /\ wLeft = 0
    /\ wApplied = {}

\* writer.ingest(events) is called with a list of n events.
Ingest(n) ==
    /\ script = "streaming_ingest"
    /\ wpc = "idle"
    /\ wLeft' = n
    /\ wpc' = "loop"
    /\ UNCHANGED <<script, restVars, batchVars, mainVars, wStore, wTx, wEvent, wApplied>>

\* for e in events: session.execute_write(self.write_event, e) opens a
\* transaction on the committed graph for the next event of the list.
BeginWrite(e) ==
    /\ wpc = "loop"
    /\ wLeft > 0
    /\ wLeft' = wLeft - 1
    /\ wEvent' = e
    /\ wTx' = wStore
    /\ wpc' = "actor"
    /\ UNCHANGED <<script, restVars, batchVars, mainVars, wStore, wApplied>>

\* Mutant: every statement runs in a transaction of its own (session.run).
TxRun_AutoCommit(g) ==
    /\ wTx' = g
    /\ wStore' = g

\* What the transaction's tx.run does to the store: its writes stay in the
\* transaction until the commit.
TxRun(g) ==
    /\ wTx' = g
    /\ wStore' = wStore

\* The first tx.run of write_event (lines 11-14).
RunActor ==
    /\ wpc = "actor"
    /\ TxRun(StmtActor(wTx, wEvent))
    /\ wpc' = "stream"
    /\ UNCHANGED <<script, restVars, batchVars, mainVars, wEvent, wLeft, wApplied>>

\* The second tx.run (lines 16-18).
RunStream ==
    /\ wpc = "stream"
    /\ TxRun(StmtStream(wTx, wEvent))
    /\ wpc' = "message"
    /\ UNCHANGED <<script, restVars, batchVars, mainVars, wEvent, wLeft, wApplied>>

\* The third tx.run (lines 20-40).
RunMessage ==
    /\ wpc = "message"
    /\ TxRun(StmtMessage(wTx, wEvent))
    /\ wpc' = "reply"
    /\ UNCHANGED <<script, restVars, batchVars, mainVars, wEvent, wLeft, wApplied>>

\* The conditional fourth tx.run (lines 42-47).
RunReply ==
    /\ wpc = "reply"
    /\ TxRun(StmtReply(wTx, wEvent))
    /\ wpc' = "commit"
    /\ UNCHANGED <<script, restVars, batchVars, mainVars, wEvent, wLeft, wApplied>>

\* write_event returned: execute_write commits the transaction.
Commit ==
    /\ wpc = "commit"
    /\ wStore' = wTx
    /\ wApplied' = wApplied \cup {wEvent}
    /\ wpc' = "loop"
    /\ UNCHANGED <<script, restVars, batchVars, mainVars, wTx, wEvent, wLeft>>

\* A tx.run raises (the store rejects the statement or is gone for good):
\* execute_write rolls the transaction back and re-raises; ingest has no
\* handler, so the exception leaves the for loop and ingest.
WriteFails ==
    /\ wpc \in {"actor", "stream", "message", "reply", "commit"}
    /\ wTx' = wStore
    /\ wpc' = "aborted"
    /\ UNCHANGED <<script, restVars, batchVars, mainVars, wStore, wEvent, wLeft, wApplied>>

\* A transient error: execute_write rolls back and runs write_event again.
Retry ==
    /\ wpc \in {"stream", "message", "reply", "commit"}
    /\ wTx' = wStore
    /\ wpc' = "actor"
    /\ UNCHANGED <<script, restVars, batchVars, mainVars, wStore, wEvent, wLeft, wApplied>>

\* The for loop is through the list: ingest returns.
IngestReturns ==
    /\ wpc = "loop"
    /\ wLeft = 0
    /\ wpc' = "done"
    /\ UNCHANGED <<script, restVars, batchVars, mainVars, wStore, wTx, wEvent, wLeft, wApplied>>

NextWriter ==
    \/ \E n \in 1..MaxEvents : Ingest(n)
    \/ \E e \in Events : BeginWrite(e)
    \/ RunActor
    \/ RunStream
    \/ RunMessage
    \/ RunReply
    \/ Commit
    \/ WriteFails
    \/ Retry
    \/ IngestReturns

SpecWriter == InitWriter /\ [][NextWriter]_vars

\* Either script is run against an empty store.
InitIngest == InitBatch \/ InitWriter
NextIngest == NextBatch \/ NextWriter
SpecIngest == InitIngest /\ [][NextIngest]_vars

(***************************************************************************)
(* Benchmark/ingest_whatsapp_3.py: main()                                  *)
(***************************************************************************)
\* A Python dict as a set of entries with distinct keys.
DictHas(d, k) == \E e \in d : e.key = k
\* d.get(k, default)
DictGet(d, k, default) ==
    IF DictHas(d, k) THEN (CHOOSE e \in d : e.key = k).val ELSE default
\* d[k] = v
DictPut(d, k, v) == {e \in d : e.key # k} \cup {[key |-> k, val |-> v]}

\* rec.get(k, default) on a JSON object.
Get(rec, k, default) == IF k \in DOMAIN rec THEN rec[k] ELSE default
\* The empty JSON object {}.
EmptyObject == [x \in {} |-> NULL]

\* { c["wa_id"]: c["profile"]["name"] for c in value.get("contacts", []) }
RECURSIVE ContactsDict(_)
ContactsDict(list) ==
    IF list = <<>> THEN {}
    ELSE LET c == list[Len(list)]
         IN  DictPut(ContactsDict(SubSeq(list, 1, Len(list) - 1)),
                     c.wa_id, c.profile.name)

\* A rendered body is the sequence of the pieces of its f-string; an empty
\* piece vanishes, and so does the blank before an empty caption (strip()).
Pieces(parts) == SelectSeq(parts, LAMBDA x : x # "")
WithCaption(tag, caption) ==
    IF caption = "" THEN <<tag>> ELSE <<tag, " ", caption>>

\* str.capitalize() on the type tags the model feeds in.
Capitalize(t) ==
    CASE t = "poll" -> "Poll"
      [] t = "LOCATION" -> "Location"
      [] t = "Contacts" -> "Contacts"
      [] OTHER -> t

\* How a step of main() ends: with a value, or with an exception raised.
Returns(v) == [raises |-> NULL, value |-> v]
Raises(exc) == [raises |-> exc, value |-> <<>>]

\* The body main() renders for msg (lines 94-143): the branch on msg["type"].
\* KeyError when a key the branch indexes is missing; <<>> for None or "".
Render(msg, contacts) ==
    IF "type" \notin DOMAIN msg THEN Raises("KeyError")
    ELSE LET t == msg.type
             payload == Get(msg, t, EmptyObject)
         IN  CASE t = "text" ->
                    Returns(Pieces(<<Get(payload, "body", "")>>))
               [] t = "image" ->
                    Returns(WithCaption("[Image]", Get(payload, "caption", "")))
               [] t = "document" ->
                    Returns(Pieces(<<"[Document: ",
                                     Get(payload, "filename", "unknown_file"), "]">>
                                   \o (IF Get(payload, "caption", "") = "" THEN <<>>
                                       ELSE <<" ", payload.caption>>)))
               [] t = "system" ->
                    LET sys_type == Get(payload, "type", NULL)
                    IN  IF sys_type \in {"group_title_changed", "user_joined"}
                           /\ "from" \notin DOMAIN msg
                        THEN Raises("KeyError")
                        ELSE IF sys_type = "group_title_changed"
                        THEN Returns(<<"[System] ",
                                       DictGet(contacts, msg.from, "Unknown"),
                                       " changed group title to '",
                                       Get(payload, "title", "Unknown"), "'">>)
                        ELSE IF sys_type = "user_joined"
                        THEN Returns(<<"[System] ",
                                       DictGet(contacts, msg.from, "Unknown"),
                                       " joined the group">>)
                        ELSE Returns(<<"[System] ", sys_type>>)
               [] t = "reaction" ->
                    Returns(<<"[Reaction] Reacted with ", Get(payload, "emoji", ""),
                              " to message ", Get(payload, "message_id", "")>>)
               [] t = "video" ->
                    Returns(WithCaption("[Video]", Get(payload, "caption", "")))
               [] t = "audio" -> Returns(<<"[Audio] Voice Message">>)
               [] t = "sticker" -> Returns(<<"[Sticker]">>)
               [] OTHER -> Returns(<<"[", Capitalize(t), "]">>)

\* int(msg["timestamp"]) on the timestamps the model feeds in.
ParseInt(str) ==
    CASE str = "1" -> 1
      [] str = "2" -> 2

\* The vector the embedding service answers for a text.
EmbedText(text) == ToString(<<"vec", text>>)

\* What main() does with one message of a change (lines 93-156): KeyError,
\* no record (if not body: continue), or the record appended to records.
Normalize(group_id, contacts, msg) ==
    LET body == Render(msg, contacts)
    IN  IF body.raises # NULL THEN Raises(body.raises)
        ELSE IF body.value = <<>> THEN Returns(<<>>)
        ELSE IF {"from", "id", "timestamp"} \subseteq DOMAIN msg
        THEN Returns(<<[group_id |-> group_id,
                        user_id |-> msg.from,
                        user_name |-> DictGet(contacts, msg.from, "Unknown"),
                        message_id |-> msg.id,
                        parent_id |-> IF "context" \in DOMAIN msg
                                      THEN Get(msg.context, "id", NULL) ELSE NULL,
                        timestamp |-> ParseInt(msg.timestamp),
                        body |-> body.value]>>)
        ELSE Raises("KeyError")

\* The input the model feeds in: contact lists and messages of a change.
ContactLists ==
    { <<>>,
      <<[wa_id |-> "u1", profile |-> [name |-> "Ann"]]>>,
      <<[wa_id |-> "u1", profile |-> [name |-> "Bob"]]>> }
TextMessage(id, from, body) ==
    [id |-> id, from |-> from, timestamp |-> "1", type |-> "text",
     text |-> [body |-> body]]
WellFormedMessages ==
    { TextMessage("m1", "u1", "hi"),
      TextMessage("m2", "u2", "yo"),
      [id |-> "m2", from |-> "u1", timestamp |-> "2", type |-> "text",
       text |-> [body |-> "re"], context |-> [id |-> "m1"]],
      TextMessage("m1", "u1", ""),
      [id |-> "m2", from |-> "u2", timestamp |-> "2", type |-> "system",
       system |-> [type |-> "user_joined", user |-> "u1"]],
      [id |-> "m1", from |-> "u1", timestamp |-> "1", type |-> "poll"],
      [id |-> "m1", from |-> "u2", timestamp |-> "1", type |-> "reaction",
       reaction |-> [message_id |-> "m2", emoji |-> "+1"]] }
\* The same text message with one of the keys main() indexes left out.
MalformedMessages ==
    { [from |-> "u1", timestamp |-> "1", type |-> "text", text |-> [body |-> "hi"]],
      [id |-> "m1", timestamp |-> "1", type |-> "text", text |-> [body |-> "hi"]],
      [id |-> "m1", from |-> "u1", type |-> "text", text |-> [body |-> "hi"]],
      [id |-> "m1", from |-> "u1", timestamp |-> "1", text |-> [body |-> "hi"]] }
MainMessages == WellFormedMessages \cup MalformedMessages

BATCH_SIZE == 100
\* The number of messages of the input file.
MaxMessages == 2

InitMain ==
    /\ script = "main"
    /\ BatchIdle
    /\ WriterIdle
    /\ RestIdle
    /\ mpc = "read"
    /\ mDriver = "none"
    /\ mGroup = NULL
    /\ mFresh = FALSE
    /\ mContacts = {}
    /\ mSeen = {}
    /\ nMsgs = 0
    /\ mRecords = <<>>
    /\ mIdx = 0
    /\ mError = NULL
    /\ mMsg = <<>>
    /\ mSkipped = {}

\* The profiles of a contacts list, observed in order for the conversation.
RECURSIVE Observe(_, _, _)
Observe(seen, group_id, list) ==
    IF list = <<>> THEN seen
    ELSE Observe(DictPut(seen, <<group_id, Head(list).wa_id>>,
                         Head(list).profile.name),
                 group_id, Tail(list))

\* for change in entry.get("changes", []): the next change that carries a
\* message; contacts is rebuilt from this change alone (lines 85-91).
ReadChange(group_id, list) ==
    /\ mpc = "read"
    /\ nMsgs < MaxMessages
    /\ mGroup = NULL \/ ~mFresh
    /\ mGroup' = group_id
    /\ mFresh' = TRUE
    /\ mContacts' = ContactsDict(list)
    /\ mSeen' = Observe(mSeen, group_id, list)
    /\ UNCHANGED <<script, restVars, batchVars, writerVars, mpc, mDriver, nMsgs, mRecords,
                   mIdx, mError, mMsg, mSkipped>>

\* for msg in value.get("messages", []): one message of the change
\* (lines 93-156). A KeyError has no handler and ends main().
ReadMessage(msg) ==
    /\ mpc = "read"
    /\ mGroup # NULL
    /\ nMsgs < MaxMessages
    /\ nMsgs' = nMsgs + 1
    /\ mFresh' = FALSE
    /\ LET out == Normalize(mGroup, mContacts, msg)
       IN  IF out.raises # NULL
           THEN /\ mpc' = "aborted"
                /\ mError' = out.raises
                /\ mRecords' = mRecords
           ELSE /\ mpc' = mpc
                /\ mError' = mError
                /\ mRecords' = mRecords \o out.value
    /\ mMsg' = <<msg>>
    /\ mSkipped' = IF Render(msg, mContacts) = Returns(<<>>) /\ "id" \in DOMAIN msg
                   THEN mSkipped \cup {msg.id} ELSE mSkipped
    /\ UNCHANGED <<script, restVars, batchVars, writerVars, mDriver, mGroup, mContacts,
                   mSeen, mIdx>>

\* The input is read: main() goes on to the embedding (line 161).
EndOfInput ==
    /\ mpc = "read"
    /\ mGroup = NULL \/ ~mFresh
    /\ mpc' = "embed"
    /\ UNCHANGED <<script, restVars, batchVars, writerVars, mDriver, mGroup, mFresh,
                   mContacts, mSeen, nMsgs, mRecords, mIdx, mError, mMsg, mSkipped>>

\* embeddings = embed_texts(texts); for r, e in zip(records, embeddings):
\* r["embedding"] = e. The service answers one vector per text; with no text
\* it answers no vector and vectors[0] (line 35) raises IndexError. Then the
\* driver is opened (lines 170-173).
Embed ==
    /\ mpc = "embed"
    /\ IF mRecords = <<>>
       THEN /\ mpc' = "aborted"
            /\ mError' = "IndexError"
            /\ UNCHANGED <<mRecords, mDriver>>
       ELSE /\ mRecords' =
                  [k \in 1..Len(mRecords) |->
                      [embedding |-> EmbedText(mRecords[k].body)] @@ mRecords[k]]
            /\ mDriver' = "open"
            /\ mpc' = "write"
            /\ mError' = mError
    /\ UNCHANGED <<script, restVars, batchVars, writerVars, mGroup, mFresh, mContacts,
                   mSeen, nMsgs, mIdx, mMsg, mSkipped>>

\* Mutant: the failure is swallowed and main() goes on to write the records,
\* without vectors.
EmbedFails_WritesOn ==
    /\ mpc = "embed"
    /\ mRecords' = [k \in 1..Len(mRecords) |-> [embedding |-> NULL] @@ mRecords[k]]
    /\ mDriver' = "open"
    /\ mpc' = "write"
    /\ mError' = "EmbeddingError"
    /\ UNCHANGED <<script, restVars, batchVars, writerVars, mGroup, mFresh, mContacts,
                   mSeen, nMsgs, mIdx, mMsg, mSkipped>>

\* requests.post fails or r.raise_for_status() raises (lines 23-32).
EmbedFails ==
    /\ mpc = "embed"
    /\ mpc' = "aborted"
    /\ mError' = "EmbeddingError"
    /\ UNCHANGED <<script, restVars, batchVars, writerVars, mDriver, mGroup, mFresh,
                   mContacts, mSeen, nMsgs, mRecords, mIdx, mMsg, mSkipped>>

\* records[i:i + BATCH_SIZE]
BatchAt(records, i) ==
    SubSeq(records, i + 1,
           IF i + BATCH_SIZE < Len(records) THEN i + BATCH_SIZE ELSE Len(records))

\* One iteration of the batch loop (lines 177-179).
WriteNextBatch ==
    /\ mpc = "write"
    /\ mIdx < Len(mRecords)
    /\ graph' = ApplyBatch(graph, BatchAt(mRecords, mIdx))
    /\ last' = BatchAt(mRecords, mIdx)
    /\ nWrites' = nWrites + 1
    /\ mIdx' = mIdx + BATCH_SIZE
    /\ UNCHANGED <<script, restVars, writerVars, mpc, mDriver, mGroup, mFresh, mContacts,
                   mSeen, nMsgs, mRecords, mError, mMsg, mSkipped>>

\* session.execute_write raises: the transaction is rolled back and the
\* exception ends main() before driver.close().
WriteBatchFails ==
    /\ mpc = "write"
    /\ mIdx < Len(mRecords)
    /\ mpc' = "aborted"
    /\ mError' = "StoreError"
    /\ UNCHANGED <<script, restVars, batchVars, writerVars, mDriver, mGroup, mFresh,
                   mContacts, mSeen, nMsgs, mRecords, mIdx, mMsg, mSkipped>>

\* The loop is through: driver.close() and the closing print (lines 181-182).
MainReturns ==
    /\ mpc = "write"
    /\ mIdx >= Len(mRecords)
    /\ mDriver' = "closed"
    /\ mpc' = "done"
    /\ UNCHANGED <<script, restVars, batchVars, writerVars, mGroup, mFresh, mContacts,
                   mSeen, nMsgs, mRecords, mIdx, mError, mMsg, mSkipped>>

NextMain ==
    \/ \E g \in GroupIds, list \in ContactLists : ReadChange(g, list)
    \/ \E msg \in MainMessages : ReadMessage(msg)
    \/ EndOfInput
    \/ Embed
    \/ EmbedFails
    \/ WriteNextBatch
    \/ WriteBatchFails
    \/ MainReturns

SpecMain == InitMain /\ [][NextMain]_vars

(***************************************************************************)
(* embed_texts of Streaming-data-for-graphiti/embedding.py and of          *)
(* whatsapp-ingested-graphiti/ingestion.py                                 *)
(***************************************************************************)
Texts == {"hi", "bye"}
MaxTexts == 3
MaxBatchSize == 3

\* The sequences over S of length at most n.
SeqsUpTo(S, n) == UNION {[1..k -> S] : k \in 0..n}

\* texts[i:i+batch_size]
Slice_DropsLast(texts, i, batch_size) ==
    SubSeq(texts, i + 1,
           IF i + batch_size - 1 < Len(texts) THEN i + batch_size - 1 ELSE Len(texts))

Slice(texts, i, batch_size) ==
    SubSeq(texts, i + 1,
           IF i + batch_size < Len(texts) THEN i + batch_size ELSE Len(texts))

\* The response formats each script reads: embedding.py reads "data" alone,
\* ingestion.py also "embeddings" and the single "embedding".
Formats(s) ==
    IF s = "embedding.py" THEN {"data"} ELSE {"data", "embeddings", "embedding"}

\* r.json() of a service that answers one vector per input, in input order,
\* in the format fmt; a single "embedding" can only answer a single input.
Payload(batch, fmt) ==
    LET vectors == [k \in 1..Len(batch) |-> EmbedText(batch[k])]
    IN  CASE fmt = "data" ->
               [data |-> [k \in 1..Len(batch) |-> [embedding |-> vectors[k]]]]
          [] fmt = "embeddings" -> [embeddings |-> vectors]
          [] fmt = "embedding" -> [embedding |-> vectors[1]]

\* The vectors the loop body takes from the payload (ingestion.py lines 44-54;
\* embedding.py line 16 is the first branch).
Vectors(payload) ==
    IF "data" \in DOMAIN payload
    THEN [k \in 1..Len(payload.data) |-> payload.data[k].embedding]
    ELSE IF "embeddings" \in DOMAIN payload THEN payload.embeddings
    ELSE <<payload.embedding>>

InitEmbed ==
    /\ script \in {"embedding.py", "ingestion.py"}
    /\ BenchIdle
    /\ UpsertIdle
    /\ AugmentIdle
    /\ PromptIdle
    /\ FusionIdle
    /\ BatchIdle
    /\ WriterIdle
    /\ MainIdle
    /\ ServiceIdle
    /\ eTexts \in SeqsUpTo(Texts, MaxTexts)
    /\ eBatchSize \in 1..MaxBatchSize
    /\ eIdx = 0
    /\ eOut = <<>>
    /\ epc = "loop"

\* One iteration of for i in range(0, len(texts), batch_size): the request is
\* answered and the vectors are appended.
EmbedBatch(fmt) ==
    /\ epc = "loop"
    /\ eIdx < Len(eTexts)
    /\ LET batch == Slice(eTexts, eIdx, eBatchSize)
       IN  /\ fmt = "embedding" => Len(batch) = 1
           /\ eOut' = eOut \o Vectors(Payload(batch, fmt))
    /\ eIdx' = eIdx + eBatchSize
    /\ UNCHANGED <<script, benchVars, upsertVars, augmentVars, promptVars, fusionVars, batchVars, writerVars, mainVars, serviceVars, eTexts, eBatchSize, epc>>

\* requests.post or r.raise_for_status() raises: the call ends with the
\* exception and returns nothing.
EmbedRequestFails ==
    /\ epc = "loop"
    /\ eIdx < Len(eTexts)
    /\ epc' = "raised"
    /\ UNCHANGED <<script, benchVars, upsertVars, augmentVars, promptVars, fusionVars, batchVars, writerVars, mainVars, serviceVars, eTexts, eBatchSize, eIdx,
                   eOut>>

\* return embeddings
EmbedReturns ==
    /\ epc = "loop"
    /\ eIdx >= Len(eTexts)
    /\ epc' = "returned"
    /\ UNCHANGED <<script, benchVars, upsertVars, augmentVars, promptVars, fusionVars, batchVars, writerVars, mainVars, serviceVars, eTexts, eBatchSize, eIdx,
                   eOut>>

NextEmbed ==
    \/ \E fmt \in Formats(script) : EmbedBatch(fmt)
    \/ EmbedRequestFails
    \/ EmbedReturns

SpecEmbed == InitEmbed /\ [][NextEmbed]_vars

(***************************************************************************)
(* Streaming-data-for-graphiti/ingest.py: parse, embed, attach, write.     *)
(* StreamEvent (adapters/schemas.py) is a pydantic BaseModel that declares *)
(* no embedding field, so the assignment e.embedding = v is rejected.      *)
(***************************************************************************)
\* The events are parsed (line 16) and embed_texts is called with their
\* contents (line 18); batch_size is the default of embedding.py, scaled.
InitPipeline ==
    /\ script = "ingest.py"
    /\ BenchIdle
    /\ UpsertIdle
    /\ BatchIdle
    /\ WriterIdle
    /\ MainIdle
    /\ ServiceIdle
    /\ FusionIdle
    /\ PromptIdle
    /\ AugmentIdle
    /\ eTexts \in SeqsUpTo(Texts, MaxTexts)
    /\ eBatchSize \in 1..MaxBatchSize
    /\ eIdx = 0
    /\ eOut = <<>>
    /\ epc = "loop"

\* for e, v in zip(events, embeddings): e.embedding = v. The first assignment
\* raises ValueError (StreamEvent has no field "embedding"): the script ends
\* before GraphWriter is constructed.
AttachFails ==
    /\ script = "ingest.py"
    /\ epc = "returned"
    /\ eOut /= <<>>
    /\ epc' = "ValueError"
    /\ UNCHANGED <<script, benchVars, upsertVars, batchVars, writerVars, mainVars, serviceVars, fusionVars,
                   promptVars, augmentVars, eTexts, eBatchSize, eIdx, eOut>>

\* zip yields nothing: writer.ingest(events) is called (lines 23-28).
PipelineIngest ==
    /\ script = "ingest.py"
    /\ epc = "returned"
    /\ eOut = <<>>
    /\ wpc = "idle"
    /\ wLeft' = Len(eTexts)
    /\ wpc' = "loop"
    /\ UNCHANGED <<script, batchVars, mainVars, restVars, wStore, wTx, wEvent, wApplied>>

NextPipeline ==
    \/ EmbedBatch("data")
    \/ EmbedRequestFails
    \/ EmbedReturns
    \/ AttachFails
    \/ PipelineIngest
    \/ IngestReturns

\* Either pipeline that embeds and then writes.
InitPipelines == InitMain \/ InitPipeline
NextPipelines == NextMain \/ NextPipeline
SpecPipelines == InitPipelines /\ [][NextPipelines]_vars

(***************************************************************************)
(* Benchmark/query_api.py: the values of a model response                  *)
(***************************************************************************)
\* A Python value: a str (its characters), an int, None, or a dict (its items
\* in insertion order).
StrVal(chars) == [t |-> "str", s |-> chars, n |-> 0, items |-> <<>>]
IntVal(n) == [t |-> "int", s |-> <<>>, n |-> n, items |-> <<>>]
NoneVal == [t |-> "None", s |-> <<>>, n |-> 0, items |-> <<>>]
DictVal(items) == [t |-> "dict", s |-> <<>>, n |-> 0, items |-> items]
\* str(v) of a dict: the text of its items.
ReprVal(v) == [t |-> "repr", s |-> <<>>, n |-> 0, items |-> v.items]

\* bool(v)
Truthy(v) ==
    CASE v.t = "str" -> v.s # <<>>
      [] v.t = "int" -> v.n # 0
      [] v.t = "None" -> FALSE
      [] v.t = "dict" -> v.items # <<>>
      [] OTHER -> TRUE

\* str(v)
Str(v) ==
    CASE v.t = "str" -> v
      [] v.t = "int" -> StrVal(<<ToString(v.n)>>)
      [] v.t = "None" -> StrVal(<<"N", "o", "n", "e">>)
      [] OTHER -> ReprVal(v)

\* key in d, d[key]
HasKey(d, key) == \E k \in 1..Len(d.items) : d.items[k].key = key
Item(d, key) == d.items[CHOOSE k \in 1..Len(d.items) : d.items[k].key = key].val

\* answer_keys (line 240)
answer_keys == <<"answer", "response", "result", "text", "content", "message">>

\* for key in answer_keys: if key in response and response[key]:
\*     answer = str(response[key]); break        (lines 241-244)
\* <<>> when the loop ends without a break.
RECURSIVE FirstAnswer(_, _)
FirstAnswer(response, keys) ==
    IF keys = <<>> THEN <<>>
    ELSE IF HasKey(response, Head(keys)) /\ Truthy(Item(response, Head(keys)))
    THEN <<Str(Item(response, Head(keys)))>>
    ELSE FirstAnswer(response, Tail(keys))

\* [v for v in response.values() if isinstance(v, str)]
StringValues(response) ==
    LET vals == [k \in 1..Len(response.items) |-> response.items[k].val]
    IN  SelectSeq(vals, LAMBDA v : v.t = "str")

\* max(values, key=len): the first of the longest.
Longest(values) ==
    values[CHOOSE k \in 1..Len(values) :
              /\ \A j \in 1..Len(values) : Len(values[j].s) <= Len(values[k].s)
              /\ \A j \in 1..(k - 1) : Len(values[j].s) < Len(values[k].s)]

\* The answer query_graph takes from the response (lines 237-255).
Answer(response) ==
    IF response.t = "dict"
    THEN LET found == FirstAnswer(response, answer_keys)
         IN  IF found # <<>> /\ Truthy(found[1]) THEN found[1]
             ELSE IF StringValues(response) # <<>>
             THEN Longest(StringValues(response))
             ELSE Str(response)
    ELSE Str(response)

(***************************************************************************)
(* Benchmark/query_api.py: startup_event, query_graph, shutdown_event      *)
(***************************************************************************)
Queries == {"q1", "q2"}
ResponseKeys == {"answer", "message", "note", "count"}
ResponseValues ==
    {StrVal(<<>>), StrVal(<<"a">>), StrVal(<<"b", "c">>), IntVal(7), NoneVal}
\* What generate_response may hand back: a dict of up to two fields, or a
\* value that is no dict.
Responses ==
    {DictVal(<<>>), StrVal(<<"a">>)}
    \cup {DictVal(<<[key |-> k, val |-> v]>>) :
             k \in ResponseKeys, v \in ResponseValues}
    \cup UNION {{DictVal(<<[key |-> k1, val |-> v1], [key |-> k2, val |-> v2]>>) :
                    k2 \in ResponseKeys \ {"count", k1},
                    v1 \in ResponseValues, v2 \in ResponseValues \ {NoneVal}} :
                k1 \in ResponseKeys}
\* The content of a completion: empty, a text that is no JSON, or the JSON
\* text of a value.
Completions ==
    {[kind |-> "empty", chars |-> <<>>, value |-> NoneVal],
     [kind |-> "text", chars |-> <<"b", "c">>, value |-> NoneVal],
     [kind |-> "json", chars |-> <<>>, value |-> DictVal(<<>>)],
     [kind |-> "json", chars |-> <<>>,
      value |-> DictVal(<<[key |-> "note", val |-> StrVal(<<"a">>)]>>)]}

\* _handle_json_response (lines 93-102): {} for no content, the parsed JSON,
\* or {"answer": content} when the content is no JSON.
HandleJsonResponse(completion) ==
    CASE completion.kind = "empty" -> DictVal(<<>>)
      [] completion.kind = "json" -> completion.value
      [] OTHER -> DictVal(<<[key |-> "answer", val |-> StrVal(completion.chars)]>>)

\* The responses query_graph may be handed.
ModelResponses == Responses \cup {HandleJsonResponse(c) : c \in Completions}
MaxQueries == 2

\* search_results_to_context_string(search_results) for a query
ContextText(q) == <<"context", q>>

\* The bodies query_graph returns (lines 259-263 and 267).
SuccessBody(q, answer) == [query |-> q, answer |-> answer, context |-> ContextText(q)]
ErrorBody(q, e) == [error |-> e, query |-> q]

\* try: ... except Exception as e: return {"error": str(e), "query": req.query}
Handled_Reraises(outcome, q) == outcome

Handled(outcome, q) ==
    IF outcome.raises # NULL THEN Returns(ErrorBody(q, outcome.raises)) ELSE outcome

\* if graphiti is None (line 203)
NotInitialized_Never(g) == FALSE

NotInitialized(g) == g = "None"

InitService ==
    /\ script = "query_api"
    /\ BenchIdle
    /\ UpsertIdle
    /\ AugmentIdle
    /\ PromptIdle
    /\ FusionIdle
    /\ BatchIdle
    /\ WriterIdle
    /\ MainIdle
    /\ EmbedIdle
    /\ spc = "starting"
    /\ sGraphiti = "None"
    /\ rpc = "idle"
    /\ rQuery = NULL
    /\ rResponse = <<>>
    /\ rOut = <<>>
    /\ nQueries = 0
    /\ nCalls = 0

\* startup_event: the clients are built and graphiti is assigned.
Startup ==
    /\ spc = "starting"
    /\ rpc = "idle"
    /\ sGraphiti' = "open"
    /\ spc' = "serving"
    /\ UNCHANGED <<script, benchVars, upsertVars, augmentVars, promptVars, fusionVars, batchVars, writerVars, mainVars, embedVars, rpc, rQuery,
                   rResponse, rOut, nQueries, nCalls>>

\* startup_event: a constructor raises; the exception is logged and
\* swallowed (lines 183-184), graphiti stays None and the app serves.
StartupFails ==
    /\ spc = "starting"
    /\ rpc = "idle"
    /\ spc' = "serving"
    /\ UNCHANGED <<script, benchVars, upsertVars, augmentVars, promptVars, fusionVars, batchVars, writerVars, mainVars, embedVars, sGraphiti, rpc,
                   rQuery, rResponse, rOut, nQueries, nCalls>>

\* query_graph(req) is called: the check of line 203.
Receive(q) ==
    /\ spc \in {"starting", "serving"}
    /\ rpc = "idle"
    /\ nQueries < MaxQueries
    /\ nQueries' = nQueries + 1
    /\ rQuery' = q
    /\ rResponse' = <<>>
    /\ IF NotInitialized(sGraphiti)
       THEN /\ rOut' = <<Handled(Raises("Graphiti client not initialized"), q)>>
            /\ rpc' = "idle"
       ELSE /\ rOut' = <<>>
            /\ rpc' = "search"
    /\ UNCHANGED <<script, benchVars, upsertVars, augmentVars, promptVars, fusionVars, batchVars, writerVars, mainVars, embedVars, spc, sGraphiti,
                   nCalls>>

\* await graphiti.search_(...) and the formatting of its results
\* (lines 211-218); on None the attribute access raises before any call.
Search ==
    /\ rpc = "search"
    /\ IF sGraphiti = "None"
       THEN /\ rOut' = <<Handled(Raises("AttributeError"), rQuery)>>
            /\ rpc' = "idle"
            /\ nCalls' = nCalls
       ELSE /\ rOut' = rOut
            /\ rpc' = "llm"
            /\ nCalls' = nCalls + 1
    /\ UNCHANGED <<script, benchVars, upsertVars, augmentVars, promptVars, fusionVars, batchVars, writerVars, mainVars, embedVars, spc, sGraphiti,
                   rQuery, rResponse, nQueries>>

\* The search or the formatting raises.
SearchFails ==
    /\ rpc = "search"
    /\ sGraphiti # "None"
    /\ nCalls' = nCalls + 1
    /\ rOut' = <<Handled(Raises("SearchError"), rQuery)>>
    /\ rpc' = "idle"
    /\ UNCHANGED <<script, benchVars, upsertVars, augmentVars, promptVars, fusionVars, batchVars, writerVars, mainVars, embedVars, spc, sGraphiti,
                   rQuery, rResponse, nQueries>>

\* generate_response answers; the answer is taken from the response and the
\* body is returned (lines 232-263).
Synthesize(response) ==
    /\ rpc = "llm"
    /\ nCalls' = nCalls + 1
    /\ rResponse' = <<response>>
    /\ rOut' = <<Handled(Returns(SuccessBody(rQuery, Answer(response))), rQuery)>>
    /\ rpc' = "idle"
    /\ UNCHANGED <<script, benchVars, upsertVars, augmentVars, promptVars, fusionVars, batchVars, writerVars, mainVars, embedVars, spc, sGraphiti,
                   rQuery, nQueries>>

\* generate_response raises.
SynthesizeFails ==
    /\ rpc = "llm"
    /\ nCalls' = nCalls + 1
    /\ rOut' = <<Handled(Raises("LLMError"), rQuery)>>
    /\ rpc' = "idle"
    /\ UNCHANGED <<script, benchVars, upsertVars, augmentVars, promptVars, fusionVars, batchVars, writerVars, mainVars, embedVars, spc, sGraphiti,
                   rQuery, rResponse, nQueries>>

\* shutdown_event: if graphiti: await graphiti.close()
Shutdown ==
    /\ spc = "serving"
    /\ rpc = "idle"
    /\ spc' = "stopped"
    /\ sGraphiti' = IF sGraphiti # "None" THEN "closed" ELSE sGraphiti
    /\ UNCHANGED <<script, benchVars, upsertVars, augmentVars, promptVars, fusionVars, batchVars, writerVars, mainVars, embedVars, rpc, rQuery,
                   rResponse, rOut, nQueries, nCalls>>

NextService ==
    \/ Startup
    \/ StartupFails
    \/ \E q \in Queries : Receive(q)
    \/ Search
    \/ SearchFails
    \/ \E response \in ModelResponses : Synthesize(response)
    \/ SynthesizeFails
    \/ Shutdown

SpecService == InitService /\ [][NextService]_vars

(***************************************************************************)
(* The rank fusion of the search behind the query endpoint                 *)
(* (graphiti.search_ with COMBINED_HYBRID_SEARCH_RRF).                     *)
(***************************************************************************)
Items == {"a", "b", "c"}
MaxRanked == 2
MaxChannels == 3
MaxConstant == 3

\* The rankings a channel may return: up to MaxRanked items, none twice.
Rankings ==
    {r \in SeqsUpTo(Items, MaxRanked) :
        \A i \in 1..Len(r) : \A j \in 1..Len(r) : r[i] = r[j] => i = j}

\* The rank of an item in a channel, 1 for the first; 0 when it is absent.
RankIn(ranking, item) ==
    IF \E i \in 1..Len(ranking) : ranking[i] = item
    THEN CHOOSE i \in 1..Len(ranking) : ranking[i] = item
    ELSE 0

\* Fractions, kept exact: num / den with den > 0.
Frac(num, den) == [num |-> num, den |-> den]
FracAdd(x, y) == Frac(x.num * y.den + y.num * x.den, x.den * y.den)
FracLess(x, y) == x.num * y.den < y.num * x.den

\* What a channel adds to the score of an item.
Contribution_AbsentAsRankZero(ranking, item, constant) ==
    Frac(1, RankIn(ranking, item) + constant)

Contribution(ranking, item, constant) ==
    IF RankIn(ranking, item) = 0 THEN Frac(0, 1)
    ELSE Frac(1, RankIn(ranking, item) + constant)

\* The fused score of an item: the sum of 1 / (rank + constant) over the
\* channels it appears in.
RECURSIVE Score(_, _, _)
Score(channels, item, constant) ==
    IF channels = <<>> THEN Frac(0, 1)
    ELSE FracAdd(Score(Tail(channels), item, constant),
                 Contribution(Head(channels), item, constant))

InitFusion ==
    /\ script = "search"
    /\ BenchIdle
    /\ UpsertIdle
    /\ AugmentIdle
    /\ PromptIdle
    /\ BatchIdle
    /\ WriterIdle
    /\ MainIdle
    /\ EmbedIdle
    /\ ServiceIdle
    /\ fConst \in 1..MaxConstant
    /\ fChannels = <<>>
    /\ fScores = <<>>
    /\ fpc = "search"

\* A search channel returns its ranking.
ChannelReturns(ranking) ==
    /\ fpc = "search"
    /\ Len(fChannels) < MaxChannels
    /\ fChannels' = Append(fChannels, ranking)
    /\ UNCHANGED <<script, benchVars, upsertVars, augmentVars, promptVars, batchVars, writerVars, mainVars, embedVars, serviceVars,
                   fConst, fScores, fpc>>

\* The rankings are fused: every item gets its score.
Fuse ==
    /\ fpc = "search"
    /\ fChannels # <<>>
    /\ fScores' = <<[i \in Items |-> Score(fChannels, i, fConst)]>>
    /\ fpc' = "fused"
    /\ UNCHANGED <<script, benchVars, upsertVars, augmentVars, promptVars, batchVars, writerVars, mainVars, embedVars, serviceVars,
                   fConst, fChannels>>

NextFusion ==
    \/ \E ranking \in Rankings : ChannelReturns(ranking)
    \/ Fuse

SpecFusion == InitFusion /\ [][NextFusion]_vars

(***************************************************************************)
(* Streaming-data-for-graphiti/query_api.py: build_prompt                  *)
(***************************************************************************)
Bodies == {"x", "y", "z"}
MaxRelated == 1
MaxRows == 2

\* A row of retrieve_graph_context: the body of the node and the bodies
\* related to it.
ContextRows == {[main |-> b, related |-> rel] :
                   b \in Bodies, rel \in SeqsUpTo(Bodies, MaxRelated)}

\* lines, after the loop of lines 72-74: main then related, row by row.
RECURSIVE Lines(_)
Lines(context) ==
    IF context = <<>> THEN <<>>
    ELSE <<Head(context).main>> \o Head(context).related \o Lines(Tail(context))

\* The elements of a sequence.
Range(seq) == {seq[i] : i \in 1..Len(seq)}

\* The orders in which iterating over set(lines) may yield its elements: the
\* iteration order of a set of str is not defined by the program.
SetOrders(S) ==
    {f \in [1..Cardinality(S) -> S] :
        \A i \in 1..Cardinality(S) : \A j \in 1..Cardinality(S) : f[i] = f[j] => i = j}

InitPrompt ==
    /\ script = "build_prompt"
    /\ BenchIdle
    /\ UpsertIdle
    /\ AugmentIdle
    /\ BatchIdle
    /\ WriterIdle
    /\ MainIdle
    /\ EmbedIdle
    /\ ServiceIdle
    /\ FusionIdle
    /\ pRows = <<>>
    /\ pText = <<>>
    /\ ppc = "retrieve"

\* retrieve_graph_context yields its next row, in rank order.
RetrieveRow(row) ==
    /\ ppc = "retrieve"
    /\ Len(pRows) < MaxRows
    /\ pRows' = Append(pRows, row)
    /\ UNCHANGED <<script, benchVars, upsertVars, augmentVars, batchVars, writerVars, mainVars, embedVars, serviceVars,
                   fusionVars, pText, ppc>>

\* build_prompt(context, query): context_text = "\n".join(set(lines)).
BuildPrompt(order) ==
    /\ ppc = "retrieve"
    /\ order \in SetOrders(Range(Lines(pRows)))
    /\ pText' = order
    /\ ppc' = "built"
    /\ UNCHANGED <<script, benchVars, upsertVars, augmentVars, batchVars, writerVars, mainVars, embedVars, serviceVars,
                   fusionVars, pRows>>

NextPrompt ==
    \/ \E row \in ContextRows : RetrieveRow(row)
    \/ \E order \in SeqsUpTo(Bodies, Cardinality(Bodies)) : BuildPrompt(order)

SpecPrompt == InitPrompt /\ [][NextPrompt]_vars

(***************************************************************************)
(* scripts/augment_airbyte_whatsapp_for_graphiti.py: augment_one derives   *)
(* events from a seed record, build_graph_elements turns an events list    *)
(* into a nodes list and a relationships list.                             *)
(***************************************************************************)
SeedIds == {"wamid"}
Phones == {"p1", "p2"}
ConversationIds == {"c1", "c2"}

\* Events main() generates (args.n times args.variants_per_seed, per seed).
MaxGenerated == 2
\* Length of an events list handed to build_graph_elements, and the largest
\* index its message ids carry.
MaxBuilt == 2
MaxIdx == 1

\* mid = f"{s.get('id','msg')}-{idx:06d}": the seed's id and the index.
MessageIdOf(seed, idx) == [seed |-> seed, idx |-> idx]

\* random.randint(1,3)
Backs == 1..3

\* max(0, idx - random.randint(1,3))
ReplyIndex(idx, back) == IF idx - back > 0 THEN idx - back ELSE 0

\* augment_one(seed, idx): the random draws are the synthetic phone numbers,
\* the conversation id and back, which is 0 when random.random() >= 0.20 (no
\* reply_to) and the draw of randint(1,3) otherwise.  reply_to is <<>> for
\* None and <<id>> for an id.
augment_one(seed, idx, from, to, conv, back) ==
    [id |-> MessageIdOf(seed, idx),
     from |-> from,
     to |-> to,
     conversation_id |-> conv,
     reply_to |-> IF back = 0 THEN <<>>
                  ELSE <<MessageIdOf(seed, ReplyIndex(idx, back))>>]

\* f"person_{phone}", f"message_{msg_id}", f"conversation_{conv_id}"
person_node_id(phone) == [kind |-> "person", key |-> phone, idx |-> 0]
message_node_id(msg_id) == [kind |-> "message", key |-> msg_id.seed, idx |-> msg_id.idx]
conversation_node_id(conv_id) == [kind |-> "conversation", key |-> conv_id, idx |-> 0]

\* id in nodes
HasNode(nodes, id) == \E i \in 1..Len(nodes) : nodes[i].id = id

\* if id not in nodes: nodes[id] = {...} (a dict keeps insertion order)
PutNode(nodes, id, label) ==
    IF HasNode(nodes, id) THEN nodes ELSE Append(nodes, [id |-> id, label |-> label])

Relationship(from, to, type) == [from |-> from, to |-> to, type |-> type]

\* One iteration of the loop over events.
AddEvent(acc, ev) ==
    LET msg_id == message_node_id(ev.id)
        n1 == PutNode(acc.nodes, person_node_id(ev.from), "Person")
        n2 == PutNode(n1, person_node_id(ev.to), "Person")
        n3 == PutNode(n2, conversation_node_id(ev.conversation_id), "Conversation")
        n4 == PutNode(n3, msg_id, "Message")
        r3 == acc.relationships
                \o <<Relationship(msg_id, person_node_id(ev.from), "SENT_BY"),
                     Relationship(msg_id, person_node_id(ev.to), "TO"),
                     Relationship(msg_id, conversation_node_id(ev.conversation_id),
                                  "IN_CONVERSATION")>>
    IN  IF ev.reply_to = <<>>
        THEN [nodes |-> n4, relationships |-> r3]
        ELSE [nodes |-> PutNode(n4, message_node_id(ev.reply_to[1]), "Message"),
              relationships |->
                  Append(r3, Relationship(msg_id, message_node_id(ev.reply_to[1]),
                                          "REPLY_TO"))]

RECURSIVE BuildFrom(_, _)
BuildFrom(acc, events) ==
    IF events = <<>> THEN acc ELSE BuildFrom(AddEvent(acc, Head(events)), Tail(events))

build_graph_elements(events) == BuildFrom([nodes |-> <<>>, relationships |-> <<>>], events)

\* The events a caller may hand to build_graph_elements.
EventInputs ==
    {[id |-> MessageIdOf(s, i), from |-> f, to |-> t, conversation_id |-> c, reply_to |-> r] :
        s \in SeedIds, i \in 0..MaxIdx, f \in Phones, t \in Phones, c \in ConversationIds,
        r \in {<<>>} \cup {<<MessageIdOf(s2, j)>> : s2 \in SeedIds, j \in 0..MaxIdx}}

InitAugment ==
    /\ script = "augment"
    /\ BenchIdle
    /\ UpsertIdle
    /\ BatchIdle
    /\ WriterIdle
    /\ MainIdle
    /\ EmbedIdle
    /\ ServiceIdle
    /\ FusionIdle
    /\ PromptIdle
    /\ aEvents = <<>>
    /\ aCounter = 0
    /\ aNodes = <<>>
    /\ aRels = <<>>
    /\ apc = "augment"

InitElements ==
    /\ script = "build_graph_elements"
    /\ BenchIdle
    /\ UpsertIdle
    /\ BatchIdle
    /\ WriterIdle
    /\ MainIdle
    /\ EmbedIdle
    /\ ServiceIdle
    /\ FusionIdle
    /\ PromptIdle
    /\ aEvents \in SeqsUpTo(EventInputs, MaxBuilt)
    /\ aCounter = 0
    /\ aNodes = <<>>
    /\ aRels = <<>>
    /\ apc = "build"

\* main(): event = augment_one(base, idx=message_counter);
\* all_events.append(event); message_counter += 1
AugmentOne(seed, from, to, conv, back) ==
    /\ apc = "augment"
    /\ aCounter < MaxGenerated
    /\ aEvents' = Append(aEvents, augment_one(seed, aCounter, from, to, conv, back))
    /\ aCounter' = aCounter + 1
    /\ UNCHANGED <<script, benchVars, upsertVars, batchVars, writerVars, mainVars, embedVars, serviceVars,
                   fusionVars, promptVars, aNodes, aRels, apc>>

\* graph = build_graph_elements(all_events)
BuildGraphElements ==
    /\ apc \in {"augment", "build"}
    /\ aNodes' = build_graph_elements(aEvents).nodes
    /\ aRels' = build_graph_elements(aEvents).relationships
    /\ apc' = "built"
    /\ UNCHANGED <<script, benchVars, upsertVars, batchVars, writerVars, mainVars, embedVars, serviceVars,
                   fusionVars, promptVars, aEvents, aCounter>>

NextAugment ==
    \/ \E seed \in SeedIds, from \in Phones, to \in Phones, conv \in ConversationIds,
          back \in {0} \cup Backs :
           AugmentOne(seed, from, to, conv, back)
    \/ BuildGraphElements

SpecAugment == InitAugment /\ [][NextAugment]_vars

NextElements == BuildGraphElements

SpecElements == InitElements /\ [][NextElements]_vars

(***************************************************************************)
(* scripts/programmatic_ingestion.py: one upsert per contact and message   *)
(* of a change.                                                            *)
(***************************************************************************)
MaxContacts == 2
MaxUpsertMessages == 2

\* v["metadata"] of the payloads scripts/9/orchestrate_group_chat.py writes.
AccountMeta == [phone_number_id |-> "pn1", display_phone_number |-> "15550001"]

\* The contacts lists of a change: users with distinct wa_ids.
UpsertContacts ==
    {cs \in SeqsUpTo({[wa_id |-> u, name |-> ToString(<<"name", u>>)] : u \in UserIds},
                     MaxContacts) :
        \A i \in 1..Len(cs) : \A j \in 1..Len(cs) : cs[i].wa_id = cs[j].wa_id => i = j}

\* The messages lists of a change: messages with distinct ids, each from a user.
UpsertMessages ==
    {ms \in SeqsUpTo({[id |-> m, from |-> u, timestamp |-> 1, type |-> "text",
                       body |-> "hi"] : m \in MessageIds, u \in UserIds},
                     MaxUpsertMessages) :
        \A i \in 1..Len(ms) : \A j \in 1..Len(ms) : ms[i].id = ms[j].id => i = j}

\* upsert(tx, acc_meta, contact, msg): the statement of lines 8-17.
upsert(g, acc_meta, contact, msg) ==
    LET g1 == MergeNode(g, "WAAccount", [phone_number_id |-> acc_meta.phone_number_id])
        accs == Match(g1, "WAAccount", [phone_number_id |-> acc_meta.phone_number_id])
        g2 == SetProps(g1, accs, [display_phone_number |-> acc_meta.display_phone_number])
        g3 == MergeNode(g2, "Contact", [wa_id |-> contact.wa_id])
        cs == Match(g3, "Contact", [wa_id |-> contact.wa_id])
        g4 == SetProps(g3, cs, [name |-> contact.name])
        g5 == MergeEdges(g4, "HAS_CONTACT", accs \X cs)
        g6 == MergeNode(g5, "Message", [message_id |-> msg.id])
        ms == Match(g6, "Message", [message_id |-> msg.id])
        g7 == SetProps(g6, ms, [timestamp |-> msg.timestamp, type |-> msg.type,
                                body |-> msg.body])
        g8 == MergeEdges(g7, "SENT", cs \X ms)
    IN  MergeEdges(g8, "SOURCE_ACCOUNT", ms \X accs)

\* The input file holds one change, with its contacts and its messages.
InitUpsert ==
    /\ script = "programmatic_ingestion"
    /\ BenchIdle
    /\ BatchIdle
    /\ WriterIdle
    /\ MainIdle
    /\ EmbedIdle
    /\ ServiceIdle
    /\ FusionIdle
    /\ PromptIdle
    /\ AugmentIdle
    /\ uStore = EmptyGraph
    /\ uContacts \in UpsertContacts
    /\ uMessages \in UpsertMessages
    /\ uC = 0
    /\ uM = 0
    /\ upc = "loop"

\* for c in v.get("contacts", []): for msg in v.get("messages", []):
\*     sess.execute_write(upsert, acc_meta, c, msg)
Upsert ==
    /\ upc = "loop"
    /\ uC < Len(uContacts)
    /\ uM < Len(uMessages)
    /\ uStore' = upsert(uStore, AccountMeta, uContacts[uC + 1], uMessages[uM + 1])
    /\ uM' = uM + 1
    /\ UNCHANGED <<script, benchVars, batchVars, writerVars, mainVars, embedVars, serviceVars,
                   fusionVars, promptVars, augmentVars, uContacts, uMessages, uC, upc>>

\* The inner loop is through the messages: the next contact.
NextContact ==
    /\ upc = "loop"
    /\ uC < Len(uContacts)
    /\ uM >= Len(uMessages)
    /\ uC' = uC + 1
    /\ uM' = 0
    /\ UNCHANGED <<script, benchVars, batchVars, writerVars, mainVars, embedVars, serviceVars,
                   fusionVars, promptVars, augmentVars, uStore, uContacts, uMessages, upc>>

\* The loops are through: driver.close() (line 40).
UpsertDone ==
    /\ upc = "loop"
    /\ uC >= Len(uContacts)
    /\ upc' = "done"
    /\ UNCHANGED <<script, benchVars, batchVars, writerVars, mainVars, embedVars, serviceVars,
                   fusionVars, promptVars, augmentVars, uStore, uContacts, uMessages, uC, uM>>

NextUpsert ==
    \/ Upsert
    \/ NextContact
    \/ UpsertDone

SpecUpsert == InitUpsert /\ [][NextUpsert]_vars

(***************************************************************************)
(* Benchmark/run_benchmark_1.py and Benchmark/run_benchmark.py: one query  *)
(* per row of the dataset, then the results file.                          *)
(***************************************************************************)
MaxQuestions == 2

\* ground_truth_answer of a row, and the answers the API may give.
Truths == {"a", "b"}
PredictedAnswers == {"", "a", "A", "b"}

\* str.strip().lower() on these answers.
Lower(s) == IF s = "A" THEN "a" ELSE s

\* What the POST of one row ends with: r.json() of a 200 response (the answer
\* body of query_graph, or its error body {error, query}), or an exception
\* (connection error, timeout, raise_for_status on the 503).
ApiOutcomes ==
    {[kind |-> "json", pred |-> [query |-> "q", answer |-> a, context |-> "ctx"]] :
        a \in PredictedAnswers}
    \cup {[kind |-> "json", pred |-> [error |-> "err", query |-> "q"]]}
    \cup {[kind |-> "exception", pred |-> [query |-> "q"]]}

\* pred.get("answer", "")
GetAnswer(pred) == IF "answer" \in DOMAIN pred THEN pred.answer ELSE ""

\* The row appended to results.
ResultRow(question_id, truth, pred, exact_match, semantic_similarity) ==
    [question_id |-> question_id, ground_truth |-> truth,
     predicted_answer |-> GetAnswer(pred), exact_match |-> exact_match,
     semantic_similarity |-> semantic_similarity]

\* The evaluation of run_benchmark_1.py (lines 43-55): pred["answer"] raises
\* KeyError when the body has no answer.
Evaluate_1(question_id, truth, pred) ==
    IF "answer" \notin DOMAIN pred THEN Raises("KeyError")
    ELSE Returns(ResultRow(question_id, truth, pred,
                           Lower(pred.answer) = Lower(truth), "None"))

\* The evaluation of run_benchmark.py (lines 77-104); judged is the verdict of
\* evaluate_semantic_similarity.
Evaluate(question_id, truth, pred, judged) ==
    IF GetAnswer(pred) = ""
    THEN Returns(ResultRow(question_id, truth, pred, FALSE, "False"))
    ELSE Returns(ResultRow(question_id, truth, pred,
                           Lower(GetAnswer(pred)) = Lower(truth),
                           IF judged THEN "True" ELSE "False"))

InitBench ==
    /\ script \in {"run_benchmark_1", "run_benchmark"}
    /\ BatchIdle
    /\ WriterIdle
    /\ MainIdle
    /\ EmbedIdle
    /\ ServiceIdle
    /\ FusionIdle
    /\ PromptIdle
    /\ AugmentIdle
    /\ UpsertIdle
    /\ bDataset \in SeqsUpTo(Truths, MaxQuestions)
    /\ bIdx = 0
    /\ bResults = <<>>
    /\ bFailed = {}
    /\ bFile = <<>>
    /\ bpc = "loop"

\* One iteration of for item in reader: the POST, then the evaluation.
Ask(outcome, judged) ==
    /\ bpc = "loop"
    /\ bIdx < Len(bDataset)
    /\ bIdx' = bIdx + 1
    /\ bFailed' = IF outcome.kind = "json" /\ "error" \in DOMAIN outcome.pred
                  THEN bFailed \cup {bIdx + 1} ELSE bFailed
    /\ IF outcome.kind = "exception"
       THEN UNCHANGED <<bResults, bpc>>
       ELSE LET row == IF script = "run_benchmark_1"
                       THEN Evaluate_1(bIdx + 1, bDataset[bIdx + 1], outcome.pred)
                       ELSE Evaluate(bIdx + 1, bDataset[bIdx + 1], outcome.pred, judged)
            IN  IF row.raises # NULL
                THEN /\ bpc' = row.raises
                     /\ UNCHANGED bResults
                ELSE /\ bResults' = Append(bResults, row.value)
                     /\ UNCHANGED bpc
    /\ UNCHANGED <<script, batchVars, writerVars, mainVars, embedVars, serviceVars,
                   fusionVars, promptVars, augmentVars, upsertVars, bDataset, bFile>>

\* The loop is through: the results file is written; fieldnames=results[0].keys()
\* raises IndexError when results is empty.
WriteResults ==
    /\ bpc = "loop"
    /\ bIdx >= Len(bDataset)
    /\ IF bResults = <<>>
       THEN /\ bpc' = "IndexError"
            /\ UNCHANGED bFile
       ELSE /\ bFile' = bResults
            /\ bpc' = "done"
    /\ UNCHANGED <<script, batchVars, writerVars, mainVars, embedVars, serviceVars,
                   fusionVars, promptVars, augmentVars, upsertVars, bDataset, bIdx,
                   bResults, bFailed>>

NextBench ==
    \/ \E outcome \in ApiOutcomes, judged \in BOOLEAN : Ask(outcome, judged)
    \/ WriteResults

SpecBench == InitBench /\ [][NextBench]_vars

(***************************************************************************)
(* Reading the graph.                                                      *)
(***************************************************************************)
NodeIds(g) == 1..Len(g.nodes)
NodesOf(g, label) == {i \in NodeIds(g) : g.nodes[i].label = label}
HasProp(g, i, k) == k \in DOMAIN g.nodes[i].props
\* The relationships of a type, by their identity in the store.
EdgesOf(g, type) == {j \in 1..Len(g.edges) : g.edges[j].type = type}
EdgesInto(g, type, i) == {j \in EdgesOf(g, type) : g.edges[j].to = i}
EdgesFrom(g, type, i) == {j \in EdgesOf(g, type) : g.edges[j].from = i}
\* A Message node that only stands for a referenced id: no content, no edges
\* of its own to a sender or a group.
IsPlaceholder(g, i) ==
    /\ g.nodes[i].label = "Message"
    /\ ~HasProp(g, i, "body") /\ ~HasProp(g, i, "timestamp")
    /\ ~HasProp(g, i, "embedding")

(***************************************************************************)
(* Claims on write_batch (SpecBatch).                                      *)
(***************************************************************************)

\* C2: after any sequence of write_batch calls every Message node has exactly
\* one SENT edge into it and exactly one IN_GROUP edge out of it.
C2_ExactlyOneSentAndMembership ==
    \A i \in NodesOf(graph, "Message") :
        /\ Cardinality(EdgesInto(graph, "SENT", i)) = 1
        /\ Cardinality(EdgesFrom(graph, "IN_GROUP", i)) = 1

\* The first two writes are a parent message r1 without a parent of its own,
\* then a reply r2 to it.
ParentThenReply(r1, r2) ==
    /\ r1.parent_id = NULL
    /\ r2.parent_id = r1.message_id
    /\ r2.message_id # r1.message_id

\* C3: ingesting a parent M1 from A1 and then a reply M2 from A2 with parent M1
\* into the empty graph yields exactly one reply edge, directed from M2 to M1,
\* exactly one SENT edge per message, and the SENT edge into M2 starts at A2.
C3_ReplyEdgeChildToParent ==
    [][ (nWrites = 1 /\ nWrites' = 2 /\ ParentThenReply(last[1], last'[1])) =>
          LET g == graph'
              m1 == Match(g, "Message", [id |-> last[1].message_id])
              m2 == Match(g, "Message", [id |-> last'[1].message_id])
              a2 == Match(g, "User", [id |-> last'[1].user_id])
          IN  /\ Cardinality(EdgesOf(g, "REPLIED_TO")) = 1
              /\ \A j \in EdgesOf(g, "REPLIED_TO") :
                    g.edges[j].from \in m2 /\ g.edges[j].to \in m1
              /\ \A i \in m1 \cup m2 : Cardinality(EdgesInto(g, "SENT", i)) = 1
              /\ \A i \in m2 : \A j \in EdgesInto(g, "SENT", i) :
                    g.edges[j].from \in a2
      ]_vars

\* C4: a reply written before its parent gives the parent id a placeholder
\* Message node; writing the real parent later enriches that same node with
\* the parent's body, timestamp, embedding, SENT edge and IN_GROUP edge; and at
\* every point there is at most one Message node per id.
C4_PlaceholderEnriched ==
    [][ LET row == last'[1]
            g == graph'
        IN  /\ \A mid \in MessageIds :
                  Cardinality(Match(g, "Message", [id |-> mid])) <= 1
            \* the forward reference creates a placeholder
            /\ (row.parent_id # NULL /\ row.parent_id # row.message_id
                  /\ Match(graph, "Message", [id |-> row.parent_id]) = {})
               => \E i \in Match(g, "Message", [id |-> row.parent_id]) :
                      /\ IsPlaceholder(g, i)
                      /\ EdgesInto(g, "SENT", i) = {}
                      /\ EdgesFrom(g, "IN_GROUP", i) = {}
            \* the real parent enriches the placeholder, in place
            /\ \A i \in Match(graph, "Message", [id |-> row.message_id]) :
                  IsPlaceholder(graph, i) =>
                      /\ Match(g, "Message", [id |-> row.message_id]) = {i}
                      /\ g.nodes[i].props =
                            [id |-> row.message_id, body |-> row.body,
                             timestamp |-> row.timestamp,
                             embedding |-> row.embedding]
                      /\ \E u \in Match(g, "User", [id |-> row.user_id]) :
                            HasEdge(g, "SENT", u, i)
                      /\ \E gr \in Match(g, "Group", [id |-> row.group_id]) :
                            HasEdge(g, "IN_GROUP", i, gr)
      ]_vars

\* C4's case: the latest write was the real parent of an earlier reply, and it
\* landed on the node the reply had created as a placeholder.
C4_Witness ==
    /\ nWrites >= 2
    /\ \E i \in Match(graph, "Message", [id |-> last[1].message_id]) :
          /\ HasProp(graph, i, "body")
          /\ EdgesInto(graph, "SENT", i) # {}
          /\ \E j \in EdgesOf(graph, "REPLIED_TO") :
                /\ graph.edges[j].from = i
                /\ graph.edges[j].to < i
                /\ graph.edges[j].to # i

(***************************************************************************)
(* Claims on GraphWriter (SpecWriter).                                     *)
(***************************************************************************)
\* The step in which execute_write commits the current event.
Commits == wpc = "commit" /\ wpc' = "loop"

\* C1: re-ingestion is idempotent: writing an event that was already applied
\* adds no node and no edge, from any reachable graph.
C1_ReingestAddsNothing ==
    [][ (Commits /\ wEvent \in wApplied) =>
            /\ Len(wStore'.nodes) = Len(wStore.nodes)
            /\ Len(wStore'.edges) = Len(wStore.edges)
      ]_vars

\* C5: after write_event of an event that carries a parent_event_id, a Message
\* node for the parent id exists and the REPLIES_TO edge child -> parent is
\* present, whether or not the parent had been written before.
C5_ReplyEdgeAfterWrite ==
    [][ (Commits /\ wEvent.parent_event_id # NULL) =>
            \E c \in Match(wStore', "Message", [id |-> wEvent.event_id]) :
            \E p \in Match(wStore', "Message", [id |-> wEvent.parent_event_id]) :
                HasEdge(wStore', "REPLIES_TO", c, p)
      ]_vars

\* C7: each event commits as one atomic unit: the committed graph changes only
\* in the commit of an event, and then by all of that event's upserts; a
\* failure inside write_event leaves the committed graph as it was.
C7_EventIsAtomic ==
    [][ /\ Commits => wStore' = WriteEvent(wStore, wEvent)
        /\ ~Commits => wStore' = wStore
      ]_vars

\* C7's case: write_event failed for an event whose statements change the
\* graph, after an earlier event had been committed.
C7_Witness ==
    /\ wpc = "aborted"
    /\ wApplied # {}
    /\ WriteEvent(wStore, wEvent) # wStore

\* C8: a permanently failing event is skipped and the events after it in the
\* input are still written: ingest does not end while events are left.
C8_LaterEventsStillWritten ==
    wpc \in {"done", "aborted"} => wLeft = 0

(***************************************************************************)
(* Claims on both scripts (SpecIngest).                                    *)
(***************************************************************************)
\* The Message nodes of g that have an embedding still have one in h.
EmbeddingsKept(g, h) ==
    \A i \in NodesOf(g, "Message") :
        HasProp(g, i, "embedding") =>
            /\ i \in NodesOf(h, "Message")
            /\ h.nodes[i].props.id = g.nodes[i].props.id
            /\ HasProp(h, i, "embedding")

\* C6: once a Message node has an embedding, no later ingestion (of the same
\* id again, or of a reply that names it as parent) leaves it without one.
C6_EmbeddingNeverCleared ==
    [][ EmbeddingsKept(graph, graph') /\ EmbeddingsKept(wStore, wStore') ]_vars

\* C6's case: the latest write named as its parent a message that had been
\* written, with its embedding, before.
C6_Witness ==
    /\ nWrites >= 2
    /\ last[1].parent_id # NULL
    /\ last[1].parent_id # last[1].message_id
    /\ \E i \in Match(graph, "Message", [id |-> last[1].parent_id]) :
          HasProp(graph, i, "embedding")

(***************************************************************************)
(* Claims about main() of Benchmark/ingest_whatsapp_3.py.                  *)
(***************************************************************************)
\* The failures of the services main() calls, as opposed to those of its input.
ServiceErrors == {"EmbeddingError", "StoreError", "IndexError"}

\* C9: a malformed message record (one missing id, from, timestamp or type) is
\* skipped without aborting: unless a service fails, main() runs to its end and
\* every well-formed message of the input, read before or after the malformed
\* one, is normalized and is a Message node of the graph.
C9_MalformedRecordSkipped ==
    /\ mError \notin ServiceErrors => mpc # "aborted"
    /\ (mpc \in {"done", "aborted"} /\ mError \notin ServiceErrors) =>
          \A k \in 1..Len(mRecords) :
              Match(graph, "Message", [id |-> mRecords[k].message_id]) # {}

\* C10: the sender name of a normalized message is the name of the latest
\* profile observed for the sender id in the conversation, at or before the
\* message in processing order, and "Unknown" only when none was observed.
C10_SenderNameIsLatestProfile ==
    [][Len(mRecords') = Len(mRecords) + 1 =>
          LET r == mRecords'[Len(mRecords')]
          IN  r.user_name = DictGet(mSeen', <<r.group_id, r.user_id>>, "Unknown")]_vars

(***************************************************************************)
(* Immutability and identity of Message nodes.                             *)
(***************************************************************************)
\* The Message nodes of g that have a body have the same body in h.
BodiesKept(g, h) ==
    \A i \in NodesOf(g, "Message") :
        HasProp(g, i, "body") =>
            /\ i \in NodesOf(h, "Message")
            /\ HasProp(h, i, "body")
            /\ h.nodes[i].props.body = g.nodes[i].props.body

\* C11: a Message's body is first-write-wins: a later write of the same message
\* id with another body leaves the body of the first write on the node.
C11_BodyFirstWriteWins ==
    [][ BodiesKept(graph, graph') /\ BodiesKept(wStore, wStore') ]_vars

\* C12: Message identity is namespaced by source: every committed event has a
\* Message node of its own (source, event id), so that events of two sources
\* with the same event id are two nodes and neither overwrites the other.
C12_MessagePerSourceAndId ==
    \A e \in wApplied :
        Match(wStore, "Message", [id |-> e.event_id, source |-> e.source]) # {}

(***************************************************************************)
(* Claims on embed_texts (SpecEmbed).                                      *)
(***************************************************************************)
\* C13: for N texts and any batch_size >= 1, embed_texts returns exactly N
\* vectors and the i-th is the embedding of the i-th text, when the service
\* answers each request with one vector per input in input order.
C13_OneVectorPerTextInOrder ==
    epc = "returned" =>
        /\ Len(eOut) = Len(eTexts)
        /\ \A i \in 1..Len(eTexts) : eOut[i] = EmbedText(eTexts[i])

\* C13's case: the call returned after more than one request, the last one
\* for a batch shorter than batch_size, on texts that differ.
C13_Witness ==
    /\ epc = "returned"
    /\ Len(eTexts) > eBatchSize
    /\ eBatchSize > 1
    /\ Len(eTexts) % eBatchSize # 0
    /\ eTexts[1] # eTexts[Len(eTexts)]

(***************************************************************************)
(* Claims on the query service (SpecService).                              *)
(***************************************************************************)
\* The known keys present in a dict response, in the order they are tried.
KnownKeysIn(response) == SelectSeq(answer_keys, LAMBDA k : HasKey(response, k))

\* C14: for a dict response the answer is that of the first known key present,
\* in the order answer, response, result, text, content, message; the longest
\* string-valued field is taken only when no known key is present, and the
\* whole response is stringified only when no string-valued field exists.
C14_AnswerResolutionOrder ==
    (rOut # <<>> /\ rResponse # <<>> /\ rResponse[1].t = "dict") =>
        LET response == rResponse[1]
            answer == rOut[1].value.answer
        IN  IF KnownKeysIn(response) # <<>>
            THEN answer = Str(Item(response, KnownKeysIn(response)[1]))
            ELSE IF StringValues(response) # <<>>
            THEN answer = Longest(StringValues(response))
            ELSE answer = Str(response)

\* C15: every call of query_graph returns a body that is either
\* {query, answer, context} or {error, query}, for the query of the call,
\* whatever the search, the language-model call or the response did; no
\* exception leaves the handler.
C15_AlwaysAJsonBody ==
    rOut # <<>> =>
        /\ rOut[1].raises = NULL
        /\ DOMAIN rOut[1].value \in {{"query", "answer", "context"}, {"error", "query"}}
        /\ rOut[1].value.query = rQuery

\* C15's case: after a served query, the language-model call of the next one
\* raised and the handler returned the error body.
C15_Witness ==
    /\ nQueries = 2
    /\ nCalls = 4
    /\ rOut # <<>>
    /\ rOut[1].value = ErrorBody(rQuery, "LLMError")

\* C16: while graphiti is None (before startup_event has run, or after it
\* failed) a query fails fast: the call returns the error "Graphiti client
\* not initialized" at once and no search or language-model call is issued.
C16_NotReadyFailsFast ==
    [][ sGraphiti = "None" =>
            /\ nCalls' = nCalls
            /\ nQueries' # nQueries =>
                  /\ rpc' = "idle"
                  /\ rOut' = <<Returns(ErrorBody(rQuery', "Graphiti client not initialized"))>>
      ]_vars

\* C16's case: startup_event failed, and the queries that came afterwards
\* were all answered with the error, without any call.
C16_Witness ==
    /\ spc = "serving"
    /\ sGraphiti = "None"
    /\ nQueries = MaxQueries
    /\ nCalls = 0
    /\ rOut = <<Returns(ErrorBody(rQuery, "Graphiti client not initialized"))>>

(***************************************************************************)
(* Further claims about main() of Benchmark/ingest_whatsapp_3.py.          *)
(***************************************************************************)
\* C17: a driver that a run acquired is released on every exit path: when
\* main() has ended, by its return or by an exception after the driver was
\* opened, the driver is not left open.
C17_DriverReleasedOnExit ==
    mpc \in {"done", "aborted"} => mDriver # "open"

\* The step in which the message loop of main() appends a record for msg.
Appends == Len(mRecords') = Len(mRecords) + 1

\* The ids of the messages main() made a record of.
RecordedIds == {mRecords[k].message_id : k \in 1..Len(mRecords)}

\* C18: an event whose rendered body is empty is skipped entirely: after the
\* ingestion no Message node with its id exists, also when another message of
\* the input replies to it.
C18_EmptyBodyLeavesNoNode ==
    mpc = "done" =>
        \A id \in mSkipped \ RecordedIds :
            Match(graph, "Message", [id |-> id]) = {}

\* C19: for a system event of subtype user_joined the rendered body is
\* "[System] {name} joined the group", {name} being the display name resolved
\* for the user id of the event's system.user field.
C19_UserJoinedNamesSystemUser ==
    [][ (Appends /\ mMsg'[1].type = "system"
                 /\ Get(mMsg'[1].system, "type", NULL) = "user_joined") =>
            mRecords'[Len(mRecords')].body =
                <<"[System] ",
                  DictGet(mContacts, mMsg'[1].system.user, "Unknown"),
                  " joined the group">>
      ]_vars

\* The types main() has a branch for (lines 95-137).
RecognizedTypes ==
    {"text", "image", "document", "system", "reaction", "video", "audio", "sticker"}

\* C20: a message of an unrecognized type is never dropped: main() makes
\* exactly one record of it, with the body "[{type}]", the type tag being as
\* it appears in the event.
C20_UnknownTypeKeptAsIs ==
    [][ (nMsgs' = nMsgs + 1
         /\ {"id", "from", "timestamp", "type"} \subseteq DOMAIN mMsg'[1]
         /\ mMsg'[1].type \notin RecognizedTypes) =>
            /\ Appends
            /\ mRecords'[Len(mRecords')].body = <<"[", mMsg'[1].type, "]">>
      ]_vars

\* The records main() made of reaction events.
IsReaction(r) == r.body[1] = "[Reaction] Reacted with "
ReactionIds ==
    {mRecords[k].message_id : k \in {j \in 1..Len(mRecords) : IsReaction(mRecords[j])}}
    \ {mRecords[k].message_id : k \in {j \in 1..Len(mRecords) : ~IsReaction(mRecords[j])}}

\* C21: reactions never become reply anchors: after the ingestion no reply
\* edge joins a message to the Message node of a reaction event it names as
\* its parent.
C21_ReactionsAreNoReplyAnchors ==
    mpc = "done" =>
        \A k \in 1..Len(mRecords) :
            mRecords[k].parent_id \in ReactionIds =>
                \A p \in Match(graph, "Message", [id |-> mRecords[k].parent_id]) :
                \A m \in Match(graph, "Message", [id |-> mRecords[k].message_id]) :
                    /\ ~HasEdge(graph, "REPLIED_TO", p, m)
                    /\ ~HasEdge(graph, "REPLIED_TO", m, p)

(***************************************************************************)
(* Further claims on write_batch (SpecBatch).                              *)
(***************************************************************************)
\* The pairs of nodes joined by a path of reply edges.
RECURSIVE ReplyPaths(_, _)
ReplyPaths(g, n) ==
    LET direct == {<<g.edges[j].from, g.edges[j].to>> : j \in EdgesOf(g, "REPLIED_TO")}
    IN  IF n = 0 THEN direct
        ELSE LET shorter == ReplyPaths(g, n - 1)
             IN  shorter \cup {<<pq[1][1], pq[2][2]>> :
                                  pq \in {x \in shorter \X direct : x[1][2] = x[2][1]}}

\* C22: after any sequence of write_batch calls the reply edges contain no
\* cycle: no message replies to itself, and two messages that name each other
\* as parent do not both get a reply edge.
C22_ReplyEdgesAcyclic ==
    \A i \in NodeIds(graph) : <<i, i>> \notin ReplyPaths(graph, Len(graph.nodes))

(***************************************************************************)
(* Claims on the rank fusion (SpecFusion).                                 *)
(***************************************************************************)
\* The channels in which an item is ranked first, and those it is absent from.
FirstIn(item) == {k \in 1..Len(fChannels) : RankIn(fChannels[k], item) = 1}
AbsentFrom(item) == {k \in 1..Len(fChannels) : RankIn(fChannels[k], item) = 0}

\* One item is first in two channels, the other first in one channel only and
\* absent from every other channel.
TwoAgainstOne(x, y) ==
    /\ Cardinality(FirstIn(x)) >= 2
    /\ Cardinality(FirstIn(y)) = 1
    /\ FirstIn(y) \cup AbsentFrom(y) = 1..Len(fChannels)

\* C23: an item ranked first in two channels scores strictly higher than an
\* item ranked first in only one channel and absent from the others, for every
\* positive constant.
C23_TwoFirstsBeatOne ==
    fpc = "fused" =>
        \A x \in Items : \A y \in Items :
            TwoAgainstOne(x, y) => FracLess(fScores[1][y], fScores[1][x])

\* C23's case: the rankings were fused with one item first in two channels
\* and another first in the third and absent from the first two.
C23_Witness ==
    /\ fpc = "fused"
    /\ fConst > 1
    /\ \E x \in Items : \E y \in Items : TwoAgainstOne(x, y)

(***************************************************************************)
(* Claims on build_prompt (SpecPrompt).                                    *)
(***************************************************************************)
\* The bodies of a sequence once each, in the order of their first occurrence.
RECURSIVE Dedup(_)
Dedup(seq) ==
    IF seq = <<>> THEN <<>>
    ELSE LET front == Dedup(SubSeq(seq, 1, Len(seq) - 1))
         IN  IF seq[Len(seq)] \in Range(front) THEN front
             ELSE Append(front, seq[Len(seq)])

\* The budget of the context block, in bodies.
ContextBudget == 2

\* C24: the context block is bounded by the budget and truncated from the
\* lowest-ranked end: it holds the retrieved bodies once each in rank order,
\* the lowest-ranked dropped first when they exceed the budget, and the
\* top-ranked body is always there.
C24_ContextTruncatedFromLowestRank ==
    ppc = "built" =>
        LET ranked == Dedup(Lines(pRows))
        IN  /\ Len(pText) <= ContextBudget
            /\ Len(pText) <= Len(ranked)
            /\ pText = SubSeq(ranked, 1, Len(pText))
            /\ ranked # <<>> => pText # <<>>

\* ids of a nodes list and (from, to, type) of a relationships list occur once
DistinctNodeIds(nodes) ==
    \A i \in 1..Len(nodes) : \A j \in 1..Len(nodes) : nodes[i].id = nodes[j].id => i = j
DistinctRelationships(rels) ==
    \A i \in 1..Len(rels) : \A j \in 1..Len(rels) : rels[i] = rels[j] => i = j

\* C25: build_graph_elements returns de-duplicated lists for any events list,
\* also one that repeats an event id: no two returned nodes share an id and no
\* two returned relationships share the same (from, to, type).
C25_ElementsDeduplicated ==
    apc = "built" => DistinctNodeIds(aNodes) /\ DistinctRelationships(aRels)

\* C26: a reply_to that augment_one gives an event carries an index strictly
\* smaller than the event's own idx, for every idx >= 0: no generated event
\* replies to itself.
C26_ReplyToEarlierIndex ==
    \A i \in 1..Len(aEvents) :
        aEvents[i].reply_to /= <<>> => aEvents[i].reply_to[1].idx < aEvents[i].id.idx

(***************************************************************************)
(* Embedding before writing (SpecPipelines).                               *)
(***************************************************************************)
\* Every Message node of g that was written from a record carries the vector of
\* its body.
VectorsAttached(g) ==
    \A i \in NodesOf(g, "Message") :
        HasProp(g, i, "body") =>
            /\ HasProp(g, i, "embedding")
            /\ g.nodes[i].props.embedding = EmbedText(g.nodes[i].props.body)

\* C27: in ingest.py and in main() every embedding request completes before the
\* first graph write: while requests are outstanding, and after one has failed,
\* the graph is unchanged, and every Message written carries its vector.
C27_EmbeddingsBeforeFirstWrite ==
    /\ mpc \in {"read", "embed"} => graph = EmptyGraph
    /\ mError \in {"EmbeddingError", "IndexError"} => graph = EmptyGraph
    /\ VectorsAttached(graph)
    /\ epc /= "returned" => wStore = EmptyGraph /\ wTx = EmptyGraph /\ wpc = "idle"
    /\ VectorsAttached(wStore)

\* C27's case: main() has embedded its records and written a batch of them.
C27_Witness ==
    /\ script = "main"
    /\ mpc \in {"write", "done"}
    /\ nWrites > 0
    /\ \E i \in NodesOf(graph, "Message") : HasProp(graph, i, "embedding")

\* C28: when the input holds no ingestible message and the embedding service
\* answers the empty request (with an empty data list), main() terminates
\* normally and has written no node and no edge.
C28_EmptyInputEndsNormally ==
    (/\ mRecords = <<>>
     /\ mpc \notin {"idle", "read", "embed"}
     /\ mError \notin {"KeyError", "EmbeddingError"})
        => /\ mpc \in {"write", "done"}
           /\ mError = NULL
           /\ graph = EmptyGraph

(***************************************************************************)
(* scripts/programmatic_ingestion.py (SpecUpsert).                         *)
(***************************************************************************)
\* C29: every Message node receives a SENT edge only from the Contact whose
\* wa_id equals the message's from field, so a message has one sender, also
\* when the contacts list of the change holds several contacts.
C29_SentOnlyFromSender ==
    \A k \in 1..Len(uMessages) :
        \A i \in Match(uStore, "Message", [message_id |-> uMessages[k].id]) :
            /\ \A j \in EdgesInto(uStore, "SENT", i) :
                  uStore.nodes[uStore.edges[j].from].props.wa_id = uMessages[k].from
            /\ Cardinality(EdgesInto(uStore, "SENT", i)) <= 1

(***************************************************************************)
(* The benchmark runner (SpecBench).                                       *)
(***************************************************************************)
\* C30: when the /query endpoint answers a question with its error body,
\* run_benchmark_1 does not abort: it goes through every remaining question
\* and writes the results file.
C30_ErrorBodyDoesNotAbort ==
    (script = "run_benchmark_1" /\ bFailed /= {} /\ bpc /= "loop")
        => bpc = "done" /\ bIdx = Len(bDataset)

====
